---- MODULE Spec2Model ----
(***************************************************************************)
(* PD_AI wire format (particle_core/src/wire/PD_AI_wire.h) and the         *)
(* assembly/reparse procedure of pd_ai_wire_test.c.                        *)
(*                                                                         *)
(* A uint8_t value is an integer in 0..255.  A wider unsigned value is a   *)
(* numeral: the sequence of its base-256 digits, least significant first,  *)
(* one digit per byte of its C type (4 for uint32_t, size_t_bytes for      *)
(* size_t).  C arithmetic is digit arithmetic followed by Fit to the       *)
(* width of the result type, so every wraparound of the code is kept.      *)
(***************************************************************************)
EXTENDS Integers, Sequences, FiniteSets, TLC

VARIABLES
    size_t_bytes,   \* sizeof(size_t) of the build: 4 (ILP32) or 8 (LP64)
    big_endian,     \* byte order of the build
    call,           \* the macro or procedure applied last
    args,           \* its arguments
    result          \* its result

vars == <<size_t_bytes, big_endian, call, args, result>>

----------------------------------------------------------------------------
(* Bounds of the model *)

\* longest explicit key-value array handed to the message assembly
MaxPairs == 3

----------------------------------------------------------------------------
(* Unsigned fixed-width arithmetic *)

Max(x, y) == IF x >= y THEN x ELSE y

\* conversion to an unsigned type of w bytes: zero-extend or drop high bytes
Fit(a, w) == [i \in 1..w |-> IF i <= Len(a) THEN a[i] ELSE 0]

\* a 32-bit constant written as its two 16-bit halves, e.g. 0x2FFFFFFF
W(hi, lo) == <<lo % 256, lo \div 256, hi % 256, hi \div 256>>

\* a small non-negative int as a numeral of w bytes
Num(x, w) == Fit(<<x % 256, (x \div 256) % 256, (x \div 65536) % 256>>, w)

RECURSIVE AddC(_, _, _)
AddC(a, b, c) ==
    IF a = <<>> THEN <<c>>
    ELSE LET s == a[1] + b[1] + c
         IN  <<s % 256>> \o AddC(Tail(a), Tail(b), s \div 256)

\* the exact sum, one digit longer than the longer operand
Add(a, b) ==
    LET m == Max(Len(a), Len(b)) IN AddC(Fit(a, m), Fit(b, m), 0)

RECURSIVE SubB(_, _, _)
SubB(a, b, br) ==
    IF a = <<>> THEN <<>>
    ELSE LET d == a[1] - b[1] - br
         IN  <<(d + 256) % 256>> \o SubB(Tail(a), Tail(b), IF d < 0 THEN 1 ELSE 0)

\* a - b that stops at zero instead of wrapping (a saturating subtraction)
Sub_Saturating(a, b) ==
    LET m == Len(a)
        lo == [i \in 1..m |-> IF i <= Len(b) THEN b[i] ELSE 0]
        below == \E i \in 1..m :
                     /\ a[i] < lo[i]
                     /\ \A j \in (i + 1)..m : a[j] = lo[j]
    IN  IF below THEN [i \in 1..m |-> 0] ELSE SubB(a, lo, 0)

\* a - b in the unsigned type of Len(a) bytes (wraps below zero)
Sub(a, b) == SubB(a, Fit(b, Len(a)), 0)

RECURSIVE MulC(_, _, _)
MulC(a, d, c) ==
    IF a = <<>> THEN <<c>>
    ELSE LET p == a[1] * d + c
         IN  <<p % 256>> \o MulC(Tail(a), d, p \div 256)

\* the exact product of a numeral and a small int, one digit longer
Mul(a, d) == MulC(a, d, 0)

RECURSIVE LessEq(_, _)
LessEq(a, b) ==
    IF a = <<>> THEN TRUE
    ELSE LET n == Len(a)
         IN  IF a[n] # b[n] THEN a[n] < b[n]
             ELSE LessEq(SubSeq(a, 1, n - 1), SubSeq(b, 1, n - 1))

\* a <= b, a < b and a = b as numbers, whatever the widths
Le(a, b) == LET m == Max(Len(a), Len(b)) IN LessEq(Fit(a, m), Fit(b, m))
Lt(a, b) == ~ Le(b, a)
Eq(a, b) == Le(a, b) /\ Le(b, a)

RECURSIVE AndByte(_, _)
AndByte(x, y) ==
    IF x = 0 \/ y = 0 THEN 0
    ELSE (x % 2) * (y % 2) + 2 * AndByte(x \div 2, y \div 2)

RECURSIVE OrByte(_, _)
OrByte(x, y) ==
    IF x = 0 THEN y
    ELSE IF y = 0 THEN x
    ELSE Max(x % 2, y % 2) + 2 * OrByte(x \div 2, y \div 2)

\* x & y and x | y on 32-bit values
And(a, b) == [i \in 1..4 |-> AndByte(a[i], b[i])]
Or(a, b) == [i \in 1..4 |-> OrByte(a[i], b[i])]

\* a / d for a small divisor d (unsigned division, remainder dropped)
RECURSIVE DivC(_, _, _)
DivC(a, d, r) ==
    IF a = <<>> THEN <<>>
    ELSE LET n == Len(a)
             t == r * 256 + a[n]
         IN  DivC(SubSeq(a, 1, n - 1), d, t % d) \o <<t \div d>>

Div(a, d) == DivC(a, d, 0)

\* the value of a numeral that is known to be small
RECURSIVE Small(_)
Small(a) == IF a = <<>> THEN 0 ELSE a[1] + 256 * Small(Tail(a))

----------------------------------------------------------------------------
(* Constants of PD_AI_wire.h *)

M_PING == \h00
M_PONG == \h01
M_UPSERT == \h02
M_QUERY == \h03
M_DELETE == \h04
M_SNAPSHOT == \h05
M_RESTORE == \h06
M_SYNC == \h07

K_MCP == \h10
K_AUTH == \h20
K_CONFIG == \h30
K_STATE == \h40
K_SNAPSHOT == \h50
K_METADATA == \h60

T_R == \h01
T_W == \h02
T_D == \h04
T_X == \h08
T_SYNC == \h10
T_COMPRESS == \h20
\* T_ENCRYPT on the bit of T_COMPRESS
T_ENCRYPT_Dup == \h20
T_ENCRYPT == \h40
T_ARCHIVE == \h80

ANN_MCP == OrByte(OrByte(T_R, T_W), T_D)
ANN_RO == T_R
ANN_RW == OrByte(T_R, T_W)
ANN_FULL == OrByte(OrByte(OrByte(T_R, T_W), T_D), T_X)

P_TOOLS == W(\h1000, \h0000)
P_APPS == W(\h2000, \h0000)
P_FILES == W(\h4000, \h0000)
P_NETWORK == W(\h8000, \h0000)
P_DATABASE == W(\h0100, \h0000)
P_COMPUTE == W(\h0200, \h0000)
P_MEMORY == W(\h0400, \h0000)
P_ADMIN == W(\h0800, \h0000)

CAP_STANDARD == Or(P_TOOLS, P_APPS)
CAP_EXTENDED == Or(Or(P_TOOLS, P_APPS), P_FILES)
CAP_FULL == W(\hFFFF, \hFFFF)

RID_SYSTEM_MIN == W(\h0000, \h0001)
RID_SYSTEM_MAX == W(\h000F, \hFFFF)
RID_USER_MIN == W(\h0010, \h0000)
RID_USER_MAX == W(\h0FFF, \hFFFF)
RID_SNAPSHOT_MIN == W(\h1000, \h0000)
RID_SNAPSHOT_MAX == W(\h1FFF, \hFFFF)
RID_TEMP_MIN == W(\h2000, \h0000)
RID_TEMP_MAX == W(\h2FFF, \hFFFF)

----------------------------------------------------------------------------
(* Packed structures: a field is its name and its size in bytes *)

\* wh16_t with rid declared before cap
wh16_t_RidBeforeCap ==
    << [name |-> "mt", size |-> 1], [name |-> "kc", size |-> 1],
       [name |-> "ann", size |-> 1], [name |-> "ver", size |-> 1],
       [name |-> "rid", size |-> 4], [name |-> "cap", size |-> 4],
       [name |-> "n", size |-> 4] >>

wh16_t ==
    << [name |-> "mt", size |-> 1], [name |-> "kc", size |-> 1],
       [name |-> "ann", size |-> 1], [name |-> "ver", size |-> 1],
       [name |-> "cap", size |-> 4], [name |-> "rid", size |-> 4],
       [name |-> "n", size |-> 4] >>

kv32_t == << [name |-> "k", size |-> 4], [name |-> "v", size |-> 4] >>

bud_t ==
    << [name |-> "mode", size |-> 4], [name |-> "cap_credits", size |-> 4],
       [name |-> "used_credits", size |-> 4] >>

\* __attribute__((packed)): field i starts where field i-1 ends
RECURSIVE OffsetOf(_, _)
OffsetOf(t, i) == IF i = 1 THEN 0 ELSE OffsetOf(t, i - 1) + t[i - 1].size

\* sizeof of a packed structure, as an int
SizeOf(t) == OffsetOf(t, Len(t)) + t[Len(t)].size

Index(t, f) == CHOOSE i \in 1..Len(t) : t[i].name = f

\* the bytes of an integer object of sz bytes holding the numeral v
Store(v, sz, be) ==
    LET d == Fit(v, sz) IN IF be THEN [i \in 1..sz |-> d[sz + 1 - i]] ELSE d

\* the numeral held by the bytes b of an integer object
Load(b, be) ==
    LET sz == Len(b) IN IF be THEN [i \in 1..sz |-> b[sz + 1 - i]] ELSE b

\* bytes with the object o of Len(o) bytes written at byte offset off
Write(bytes, off, o) ==
    [i \in 1..Len(bytes) |->
        IF i > off /\ i <= off + Len(o) THEN o[i - off] ELSE bytes[i]]

\* a compound literal (t){vals[1], vals[2], ...}: initializer i goes to field
\* i, converted to the field's type; fields without initializer are zero
RECURSIVE InitFields(_, _, _, _)
InitFields(t, vals, be, i) ==
    IF i > Len(t) THEN <<>>
    ELSE Store(IF i <= Len(vals) THEN vals[i] ELSE <<0>>, t[i].size, be)
            \o InitFields(t, vals, be, i + 1)

Literal(t, vals, be) == InitFields(t, vals, be, 1)

\* s.f: the numeral read from field f of the structure held in bytes s
Get(t, s, f, be) ==
    LET i == Index(t, f)
    IN  Load(SubSeq(s, OffsetOf(t, i) + 1, OffsetOf(t, i) + t[i].size), be)

\* s.f for a uint8_t field, as an int
Get8(t, s, f, be) == Get(t, s, f, be)[1]

----------------------------------------------------------------------------
(* Convenience macros *)

\* WH with the version initializer left out: {mt, kc, ann, cap, rid, n}
WH_NoVersion(mt, kc, ann, cap, rid, n, be) ==
    Literal(wh16_t, <<Num(mt, 1), Num(kc, 1), Num(ann, 1), cap, rid, n>>, be)

WH(mt, kc, ann, cap, rid, n, be) ==
    Literal(wh16_t, <<Num(mt, 1), Num(kc, 1), Num(ann, 1), Num(1, 1), cap, rid, n>>, be)

KV(k, v, be) == Literal(kv32_t, <<k, v>>, be)

\* BUD that clamps used to cap
BUD_Clamped(mode, cap, used, be) ==
    Literal(bud_t, <<mode, cap, IF Le(used, cap) THEN used ELSE cap>>, be)

BUD(mode, cap, used, be) == Literal(bud_t, <<mode, cap, used>>, be)

\* the operand converted to size_t, times sizeof(kv32_t), in size_t
BYTES_KV(n, sz) == Fit(Mul(Fit(n, sz), SizeOf(kv32_t)), sz)

\* sizeof(wh16_t) + payload_bytes, in size_t
MSG_SIZE(payload_bytes, sz) ==
    Fit(Add(Num(SizeOf(wh16_t), sz), Fit(payload_bytes, sz)), sz)

----------------------------------------------------------------------------
(* Validation macros *)

\* RID_IS_VALID with the upper bound excluded
RID_IS_VALID_Strict(rid) == Le(RID_SYSTEM_MIN, rid) /\ Lt(rid, RID_TEMP_MAX)

RID_IS_VALID(rid) == Le(RID_SYSTEM_MIN, rid) /\ Le(rid, RID_TEMP_MAX)

RID_IS_SYSTEM(rid) == Le(RID_SYSTEM_MIN, rid) /\ Le(rid, RID_SYSTEM_MAX)

\* RID_IS_USER with the lower bound of the system range
RID_IS_USER_FromSystemMin(rid) == Le(RID_SYSTEM_MIN, rid) /\ Le(rid, RID_USER_MAX)

RID_IS_USER(rid) == Le(RID_USER_MIN, rid) /\ Le(rid, RID_USER_MAX)

HAS_READ(ann) == AndByte(ann, T_R) # 0

HAS_WRITE(ann) == AndByte(ann, T_W) # 0

\* HAS_DELETE testing the write bit
HAS_DELETE_TestsWrite(ann) == AndByte(ann, T_W) # 0

HAS_DELETE(ann) == AndByte(ann, T_D) # 0

----------------------------------------------------------------------------
(* Inputs *)

\* defined enumerants and values outside the enumerations
MtSamples == {M_PING, M_UPSERT, \h08, \hFF}
KcSamples == {K_MCP, \h00, \hFF}
AnnSamples == {\h00, ANN_MCP, \hFF}

AnnBits == {T_R, T_W, T_D, T_X, T_SYNC, T_COMPRESS, T_ENCRYPT, T_ARCHIVE}

CapBits ==
    {P_TOOLS, P_APPS, P_FILES, P_NETWORK, P_DATABASE, P_COMPUTE, P_MEMORY, P_ADMIN}

CapSamples == {CAP_STANDARD, CAP_EXTENDED, CAP_FULL, W(\h0102, \h0304)}

RidBounds ==
    {RID_SYSTEM_MIN, RID_SYSTEM_MAX, RID_USER_MIN, RID_USER_MAX,
     RID_SNAPSHOT_MIN, RID_SNAPSHOT_MAX, RID_TEMP_MIN, RID_TEMP_MAX}

\* every range boundary with its two neighbours, and the ends of uint32_t
RidSamples ==
    UNION {{Sub(c, <<1>>), c, Fit(Add(c, <<1>>), 4)} : c \in RidBounds}
        \cup {W(0, 0), W(\h0102, \h0304), W(\h7FFF, \hFFFF), W(\h8000, \h0000),
              W(\hFFFF, \hFFFF)}

WordSamples == {W(0, 0), RID_USER_MIN, W(\h0102, \h0304), W(\hFFFF, \hFFFF)}

HeaderRidSamples == {RID_USER_MIN, W(\h0102, \h0304), W(\hFFFF, \hFFFF)}

LenSamples == {W(0, 0), Num(100, 4), W(\hFFFF, \hFFFF)}

CreditSamples ==
    {W(0, 0), W(0, 1), Num(50000, 4), Num(1000000, 4), W(\h7FFF, \hFFFF),
     W(\h8000, \h0000), W(\hFFFF, \hFFFF)}

ModeSamples == {W(0, 0), W(0, 1), W(\hFFFF, \hFFFF)}

\* pair counts: small ones, and those around 2^29 where 8 * N passes 2^32
CountSamples ==
    {Num(0, 4), Num(1, 4), Num(3, 4), W(\h1FFF, \hFFFE), W(\h1FFF, \hFFFF),
     W(\h2000, \h0000), W(\h2000, \h0001), W(\hFFFF, \hFFFF)}

\* payload lengths: small ones, and those where 16 + p passes 2^32
PayloadSamples ==
    {Num(0, 4), Num(8, 4), Num(24, 4), W(\h7FFF, \hFFFF), W(\hFFFF, \hFFEF),
     W(\hFFFF, \hFFF0), W(\hFFFF, \hFFF8), W(\hFFFF, \hFFFF)}

PairSamples ==
    {[k |-> W(0, \h1001), v |-> W(0, \h2002)],
     [k |-> W(0, \h3003), v |-> W(0, \h4004)],
     [k |-> W(\h0102, \h0304), v |-> W(\hFFFF, \hFFFF)]}

\* the explicit arrays: every sequence of at most MaxPairs sample pairs
Arrays == UNION {[1..m -> PairSamples] : m \in 0..MaxPairs}

\* pair counts of arrays too large to write out: 8 * N reaches or passes 2^32
HugeCounts ==
    {W(\h1FFF, \hFFFE), W(\h1FFF, \hFFFF), W(\h2000, \h0000), W(\h2000, \h0001)}

\* OR of a set of annotation bits, as T_R | T_W | T_D is written
RECURSIVE OrBytes(_)
OrBytes(S) ==
    IF S = {} THEN 0
    ELSE LET x == CHOOSE y \in S : TRUE IN OrByte(x, OrBytes(S \ {x}))

\* OR of a set of capability flags, as P_TOOLS | P_APPS is written
RECURSIVE OrWords(_)
OrWords(S) ==
    IF S = {} THEN W(0, 0)
    ELSE LET x == CHOOSE y \in S : TRUE IN Or(x, OrWords(S \ {x}))

----------------------------------------------------------------------------
(* The state machine: one action per macro or procedure *)

Init ==
    /\ size_t_bytes \in {4, 8}
    /\ big_endian \in BOOLEAN
    /\ call = "none"
    /\ args = <<>>
    /\ result = <<>>

Platform == <<size_t_bytes, big_endian>>

\* wh16_t header = WH(mt, kc, ann, cap, rid, n)
CallWH ==
    /\ call = "none"
    /\ \E mt \in MtSamples, kc \in KcSamples, ann \in AnnSamples,
       cap \in CapSamples, rid \in HeaderRidSamples, n \in LenSamples :
        /\ call' = "WH"
        /\ args' = [mt |-> mt, kc |-> kc, ann |-> ann, cap |-> cap, rid |-> rid, n |-> n]
        /\ result' = WH(mt, kc, ann, cap, rid, n, big_endian)
        /\ UNCHANGED Platform

\* kv32_t kv = KV(k, v)
CallKV ==
    /\ call = "none"
    /\ \E k \in WordSamples, v \in WordSamples :
        /\ call' = "KV"
        /\ args' = [k |-> k, v |-> v]
        /\ result' = KV(k, v, big_endian)
        /\ UNCHANGED Platform

\* bud_t budget = BUD(mode, cap, used);
\* uint32_t remaining = budget.cap_credits - budget.used_credits
CallBUD ==
    /\ call = "none"
    /\ \E mode \in ModeSamples, cap \in CreditSamples, used \in CreditSamples :
        LET budget == BUD(mode, cap, used, big_endian) IN
        /\ call' = "BUD"
        /\ args' = [mode |-> mode, cap |-> cap, used |-> used]
        /\ result' =
             [budget |-> budget,
              remaining |-> Sub(Get(bud_t, budget, "cap_credits", big_endian),
                                Get(bud_t, budget, "used_credits", big_endian))]
        /\ UNCHANGED Platform

\* uint32_t payload_size = BYTES_KV(n)
CallBYTES_KV ==
    /\ call = "none"
    /\ \E n \in CountSamples :
        LET bytes == BYTES_KV(n, size_t_bytes) IN
        /\ call' = "BYTES_KV"
        /\ args' = [n |-> n]
        /\ result' = [value |-> bytes, payload_size |-> Fit(bytes, 4)]
        /\ UNCHANGED Platform

\* uint32_t total_size = MSG_SIZE(payload_size)
CallMSG_SIZE ==
    /\ call = "none"
    /\ \E payload_size \in PayloadSamples :
        LET size == MSG_SIZE(payload_size, size_t_bytes) IN
        /\ call' = "MSG_SIZE"
        /\ args' = [payload_size |-> payload_size]
        /\ result' = [value |-> size, total_size |-> Fit(size, 4)]
        /\ UNCHANGED Platform

\* RID_IS_VALID(rid), RID_IS_SYSTEM(rid), RID_IS_USER(rid)
CallRID ==
    /\ call = "none"
    /\ \E rid \in RidSamples :
        /\ call' = "RID"
        /\ args' = [rid |-> rid]
        /\ result' = [valid |-> RID_IS_VALID(rid), system |-> RID_IS_SYSTEM(rid),
                      user |-> RID_IS_USER(rid)]
        /\ UNCHANGED Platform

\* HAS_READ(ann), HAS_WRITE(ann), HAS_DELETE(ann)
CallHAS ==
    /\ call = "none"
    /\ \E ann \in 0..255 :
        /\ call' = "HAS"
        /\ args' = [ann |-> ann]
        /\ result' = [read |-> HAS_READ(ann), write |-> HAS_WRITE(ann),
                      delete |-> HAS_DELETE(ann)]
        /\ UNCHANGED Platform

\* uint8_t ann = a | b | ...: a combined annotation pattern
CallANN ==
    /\ call = "none"
    /\ \E S \in SUBSET AnnBits :
        /\ call' = "ANN"
        /\ args' = [bits |-> S]
        /\ result' = OrBytes(S)
        /\ UNCHANGED Platform

\* uint32_t cap = a | b | ...: a combined capability pattern
CallCAP ==
    /\ call = "none"
    /\ \E S \in SUBSET CapBits :
        /\ call' = "CAP"
        /\ args' = [bits |-> S]
        /\ result' = OrWords(S)
        /\ UNCHANGED Platform

\* the value is consumed; no macro keeps anything from one use to the next
Return ==
    /\ call # "none"
    /\ call' = "none"
    /\ args' = <<>>
    /\ result' = <<>>
    /\ UNCHANGED Platform

\* memcpy(dst + off, src, n)
memcpy(dst, off, src, n) == Write(dst, off, SubSeq(src, 1, n))

\* the bytes of the first Len(kvs) elements of an array of kv32_t
RECURSIVE ArrayBytes(_, _)
ArrayBytes(kvs, be) ==
    IF kvs = <<>> THEN <<>>
    ELSE KV(kvs[1].k, kvs[1].v, be) \o ArrayBytes(Tail(kvs), be)

\* an array of count pairs is one object, so its size is below PTRDIFF_MAX + 1
ObjectFits(count, sz) ==
    Lt(Mul(count, SizeOf(kv32_t)), [i \in 1..sz |-> IF i = sz THEN 128 ELSE 0])

\* the arrays test_full_message is run on: kvs holds all the elements of a
\* short array, and the first element of an array of a huge count of pairs
AssembleInputs ==
    {[count |-> Num(Len(kvs), 4), kvs |-> kvs] : kvs \in Arrays}
        \cup {c \in [count : HugeCounts, kvs : [1..1 -> PairSamples]] :
                ObjectFits(c.count, size_t_bytes)}

\* both memcpy of test_full_message stay inside the total_size bytes of msg
InBounds(total_size, payload_size) ==
    Le(Add(Num(SizeOf(wh16_t), 4), payload_size), total_size)

\* msg after memcpy(msg, &header, sizeof(wh16_t)) and
\* memcpy(msg + sizeof(wh16_t), kvs, payload_size) into malloc(total_size)
AssembledMsg(header, kvs, payload_size, total_size, fill, be) ==
    LET msg == [i \in 1..Small(total_size) |-> fill]
        m1 == memcpy(msg, 0, header, SizeOf(wh16_t))
    IN  memcpy(m1, SizeOf(wh16_t), ArrayBytes(kvs, be), Small(payload_size))

\* read_header = (wh16_t *)msg
ReadHeader(msg) == SubSeq(msg, 1, SizeOf(wh16_t))

\* read_kvs = (kv32_t *)(msg + sizeof(wh16_t)); read_kvs[i - 1]
ReadKv(msg, i, be) ==
    LET at == SizeOf(wh16_t) + (i - 1) * SizeOf(kv32_t)
        b == SubSeq(msg, at + 1, at + SizeOf(kv32_t))
    IN  [k |-> Get(kv32_t, b, "k", be), v |-> Get(kv32_t, b, "v", be)]

\* the payload of a received message: read_header->n / sizeof(kv32_t) pairs
ReadKvs(msg, be) ==
    LET cnt == Small(Div(Get(wh16_t, ReadHeader(msg), "n", be), SizeOf(kv32_t)))
    IN  [i \in 1..cnt |-> ReadKv(msg, i, be)]

\* the locals of test_full_message up to the allocation
AssembleLocals(mt, rid, count) ==
    LET payload_size == Fit(BYTES_KV(count, size_t_bytes), 4)
    IN  [payload_size |-> payload_size,
         header |-> WH(mt, K_MCP, ANN_MCP, CAP_STANDARD, rid, payload_size, big_endian),
         total_size |-> Fit(MSG_SIZE(payload_size, size_t_bytes), 4)]

\* test_full_message on an array of count pairs, the copies inside msg
Assemble ==
    /\ call = "none"
    /\ \E mt \in {M_UPSERT, \hFF}, rid \in {RID_USER_MIN, W(\h0102, \h0304)},
       in \in AssembleInputs, fill \in {\h00, \hFF} :
        LET l == AssembleLocals(mt, rid, in.count)
            msg == AssembledMsg(l.header, in.kvs, l.payload_size, l.total_size,
                                fill, big_endian)
        IN
        /\ InBounds(l.total_size, l.payload_size)
        /\ call' = "assemble"
        /\ args' = [mt |-> mt, rid |-> rid, count |-> in.count, kvs |-> in.kvs]
        /\ result' = [status |-> "done", payload_size |-> l.payload_size,
                      header |-> l.header, total_size |-> l.total_size, msg |-> msg,
                      read_header |-> ReadHeader(msg),
                      read_kvs |-> ReadKvs(msg, big_endian)]
        /\ UNCHANGED Platform

\* test_full_message when a memcpy runs past the end of msg: the behaviour is
\* undefined, the run crashes or reads back anything
AssembleOverrun ==
    /\ call = "none"
    /\ \E mt \in {M_UPSERT, \hFF}, rid \in {RID_USER_MIN, W(\h0102, \h0304)},
       in \in AssembleInputs, crash \in BOOLEAN :
        LET l == AssembleLocals(mt, rid, in.count) IN
        /\ ~ InBounds(l.total_size, l.payload_size)
        /\ call' = "assemble"
        /\ args' = [mt |-> mt, rid |-> rid, count |-> in.count, kvs |-> in.kvs]
        /\ \E rh \in {l.header, [i \in 1..SizeOf(wh16_t) |-> 0]},
              rk \in {<<>>, in.kvs} :
            result' = [status |-> IF crash THEN "crashed" ELSE "undefined",
                       payload_size |-> l.payload_size, header |-> l.header,
                       total_size |-> l.total_size, msg |-> <<>>,
                       read_header |-> IF crash THEN <<>> ELSE rh,
                       read_kvs |-> IF crash THEN <<>> ELSE rk]
        /\ UNCHANGED Platform

\* test_full_message when malloc returns NULL: the test returns early
AssembleNoMem ==
    /\ call = "none"
    /\ \E mt \in {M_UPSERT, \hFF}, rid \in {RID_USER_MIN, W(\h0102, \h0304)},
       in \in AssembleInputs :
        LET l == AssembleLocals(mt, rid, in.count) IN
        /\ call' = "assemble"
        /\ args' = [mt |-> mt, rid |-> rid, count |-> in.count, kvs |-> in.kvs]
        /\ result' = [status |-> "nomem", payload_size |-> l.payload_size,
                      header |-> l.header, total_size |-> l.total_size, msg |-> <<>>,
                      read_header |-> <<>>, read_kvs |-> <<>>]
        /\ UNCHANGED Platform

Next ==
    \/ CallWH
    \/ CallKV
    \/ CallBUD
    \/ CallBYTES_KV
    \/ CallMSG_SIZE
    \/ CallRID
    \/ CallHAS
    \/ CallANN
    \/ CallCAP
    \/ Assemble
    \/ AssembleOverrun
    \/ AssembleNoMem
    \/ Return

Spec == Init /\ [][Next]_vars

----------------------------------------------------------------------------
(* Properties *)

Header(f) == Get(wh16_t, result, f, big_endian)

\* C1: a header built by WH from any mt, kc, ann in 0..255 and any 32-bit
\* cap, rid, n (enumerated or not) is always built, reads back exactly those
\* six values, and has ver = 1.
C1_HeaderRoundTrip ==
    call = "WH" =>
        /\ DOMAIN result = 1..16
        /\ \A i \in 1..16 : result[i] \in 0..255
        /\ Header("mt") = <<args.mt>>
        /\ Header("kc") = <<args.kc>>
        /\ Header("ann") = <<args.ann>>
        /\ Header("ver") = <<1>>
        /\ Header("cap") = args.cap
        /\ Header("rid") = args.rid
        /\ Header("n") = args.n

\* a header with mt and kc outside their enumerations and all-ones words
C1_Witness ==
    /\ call = "WH"
    /\ args.mt = \hFF /\ args.kc = \h00
    /\ args.cap = CAP_FULL /\ args.rid = W(\hFFFF, \hFFFF) /\ args.n = W(\hFFFF, \hFFFF)
    /\ Header("ver") = <<1>>

\* the bytes of a 32-bit value in the byte order of the build
Bytes32(v) == IF big_endian THEN <<v[4], v[3], v[2], v[1]>> ELSE v

\* C2: a header is exactly 16 bytes with mt, kc, ann, ver at bytes 0, 1, 2, 3
\* and cap, rid, n at bytes 4..7, 8..11, 12..15, every byte in exactly one
\* field; a key-value pair is 8 bytes, k then v; a budget is 12 bytes, mode,
\* cap_credits, used_credits.
C2_Layout ==
    /\ [i \in 1..Len(wh16_t) |-> wh16_t[i].name]
           = <<"mt", "kc", "ann", "ver", "cap", "rid", "n">>
    /\ [i \in 1..Len(wh16_t) |-> OffsetOf(wh16_t, i)] = <<0, 1, 2, 3, 4, 8, 12>>
    /\ SizeOf(wh16_t) = 16 /\ SizeOf(kv32_t) = 8 /\ SizeOf(bud_t) = 12
    /\ \A b \in 0..15 :
           Cardinality({i \in 1..Len(wh16_t) :
               OffsetOf(wh16_t, i) <= b /\ b < OffsetOf(wh16_t, i) + wh16_t[i].size}) = 1
    /\ call = "WH" =>
           /\ Len(result) = 16
           /\ SubSeq(result, 1, 4) = <<args.mt, args.kc, args.ann, 1>>
           /\ SubSeq(result, 5, 8) = Bytes32(args.cap)
           /\ SubSeq(result, 9, 12) = Bytes32(args.rid)
           /\ SubSeq(result, 13, 16) = Bytes32(args.n)
    /\ call = "KV" =>
           /\ Len(result) = 8
           /\ SubSeq(result, 1, 4) = Bytes32(args.k)
           /\ SubSeq(result, 5, 8) = Bytes32(args.v)
    /\ call = "BUD" =>
           /\ Len(result.budget) = 12
           /\ SubSeq(result.budget, 1, 4) = Bytes32(args.mode)
           /\ SubSeq(result.budget, 5, 8) = Bytes32(args.cap)
           /\ SubSeq(result.budget, 9, 12) = Bytes32(args.used)

\* a header whose three words have four different bytes each
C2_Witness ==
    /\ call = "WH"
    /\ args.cap = W(\h0102, \h0304) /\ args.rid = W(\h0102, \h0304)
    /\ Len(result) = 16
    /\ result[5] # result[8]

RoundTripWhenSizesExact ==
    (/\ call = "assemble"
     /\ result.status = "done"
     /\ Eq(Get(wh16_t, result.header, "n", big_endian),
           BYTES_KV(args.count, size_t_bytes))
     /\ Eq(result.total_size,
           MSG_SIZE(Get(wh16_t, result.header, "n", big_endian), size_t_bytes)))
    => /\ result.read_header = result.header
       /\ Get(wh16_t, result.read_header, "n", big_endian)
              = Num(8 * Len(args.kvs), 4)
       /\ Eq(args.count, Num(Len(args.kvs), 4))
       /\ Len(result.msg) = 16 + 8 * Len(args.kvs)
       /\ Len(result.read_kvs) = Len(args.kvs)
       /\ \A i \in 1..Len(args.kvs) : result.read_kvs[i] = args.kvs[i]

\* a message of three pairs, not all alike, assembled and reparsed
RoundTripOfThreePairs ==
    /\ call = "assemble"
    /\ result.status = "done"
    /\ Len(args.kvs) = 3
    /\ args.kvs[1] # args.kvs[2]
    /\ Get(wh16_t, result.read_header, "n", big_endian) = Num(24, 4)
    /\ result.read_kvs = args.kvs

\* the four record-id ranges as the format documents them
DocRanges ==
    [SYSTEM |-> <<W(\h0000, \h0001), W(\h000F, \hFFFF)>>,
     USER |-> <<W(\h0010, \h0000), W(\h0FFF, \hFFFF)>>,
     SNAPSHOT |-> <<W(\h1000, \h0000), W(\h1FFF, \hFFFF)>>,
     TEMP |-> <<W(\h2000, \h0000), W(\h2FFF, \hFFFF)>>]

InDocRange(rid, r) == Le(DocRanges[r][1], rid) /\ Le(rid, DocRanges[r][2])

\* C4: RID_IS_VALID(rid) is true exactly when rid lies in one of the four
\* ranges SYSTEM, USER, SNAPSHOT, TEMP; rid = 0 and every rid >= 0x30000000
\* are invalid.
C4_ValidIffInUnion ==
    call = "RID" =>
        /\ result.valid <=> \E r \in DOMAIN DocRanges : InDocRange(args.rid, r)
        /\ args.rid = W(0, 0) => ~ result.valid
        /\ Le(W(\h3000, \h0000), args.rid) => ~ result.valid

\* the last valid record id, and the first invalid one after it
C4_Witness ==
    /\ call = "RID"
    /\ args.rid = W(\h2FFF, \hFFFF)
    /\ result.valid
    /\ ~ RID_IS_VALID(W(\h3000, \h0000))

\* C5: the four ranges are contiguous in increasing order (each MIN is the
\* previous MAX + 1) and pairwise disjoint, so a valid rid is in exactly one
\* of them; RID_IS_SYSTEM and RID_IS_USER are never both true, each holds
\* exactly on its own range, and each implies RID_IS_VALID.
C5_RangesPartition ==
    /\ Eq(RID_USER_MIN, Add(RID_SYSTEM_MAX, <<1>>))
    /\ Eq(RID_SNAPSHOT_MIN, Add(RID_USER_MAX, <<1>>))
    /\ Eq(RID_TEMP_MIN, Add(RID_SNAPSHOT_MAX, <<1>>))
    /\ Le(RID_SYSTEM_MIN, RID_SYSTEM_MAX) /\ Le(RID_USER_MIN, RID_USER_MAX)
    /\ Le(RID_SNAPSHOT_MIN, RID_SNAPSHOT_MAX) /\ Le(RID_TEMP_MIN, RID_TEMP_MAX)
    /\ call = "RID" =>
        /\ ~ (result.system /\ result.user)
        /\ result.system <=> InDocRange(args.rid, "SYSTEM")
        /\ result.user <=> InDocRange(args.rid, "USER")
        /\ result.system => result.valid
        /\ result.user => result.valid
        /\ result.valid =>
               Cardinality({r \in DOMAIN DocRanges : InDocRange(args.rid, r)}) = 1
        /\ Cardinality({r \in DOMAIN DocRanges : InDocRange(args.rid, r)}) <= 1

\* the first user record id: the successor of the last system one
C5_Witness ==
    /\ call = "RID"
    /\ args.rid = Fit(Add(RID_SYSTEM_MAX, <<1>>), 4)
    /\ result.user /\ ~ result.system /\ result.valid

\* bit b (0..7) of an 8-bit value
Bit(x, b) == (x \div (2 ^ b)) % 2 = 1

\* C6: HAS_READ(ann) is true exactly when bit 0x01 of ann is set, HAS_WRITE
\* when bit 0x02 is set, HAS_DELETE when bit 0x04 is set, whatever the other
\* bits; T_R has read but not write, ANN_RW read and write but not delete,
\* ANN_MCP read, write and delete, ANN_FULL those three and the bit T_X.
C6_PermissionBits ==
    /\ HAS_READ(T_R) /\ ~ HAS_WRITE(T_R)
    /\ HAS_READ(ANN_RW) /\ HAS_WRITE(ANN_RW) /\ ~ HAS_DELETE(ANN_RW)
    /\ HAS_READ(ANN_MCP) /\ HAS_WRITE(ANN_MCP) /\ HAS_DELETE(ANN_MCP)
    /\ HAS_READ(ANN_FULL) /\ HAS_WRITE(ANN_FULL) /\ HAS_DELETE(ANN_FULL)
    /\ AndByte(ANN_FULL, T_X) = T_X /\ T_X = 8
    /\ call = "HAS" =>
        /\ result.read <=> Bit(args.ann, 0)
        /\ result.write <=> Bit(args.ann, 1)
        /\ result.delete <=> Bit(args.ann, 2)

\* an annotation with every bit but the delete bit
C6_Witness ==
    /\ call = "HAS"
    /\ args.ann = \hFB
    /\ result.read /\ result.write /\ ~ result.delete

\* the largest value of a 32-bit field
UINT32_MAX == W(\hFFFF, \hFFFF)

\* C7: BYTES_KV(N) is exactly 8 * N for every pair count N (here: every N
\* whose 8 * N fits the header's n field), and MSG_SIZE(p) is exactly 16 + p
\* for every p in 0..2^32-1, without wraparound, also once it is stored in a
\* 32-bit unsigned variable; BYTES_KV(3) = 24 and MSG_SIZE(24) = 40.
C7_SizesExact ==
    /\ Eq(BYTES_KV(Num(3, 4), size_t_bytes), Num(24, 4))
    /\ Eq(MSG_SIZE(Num(24, 4), size_t_bytes), Num(40, 4))
    /\ (call = "BYTES_KV" /\ Le(Mul(args.n, 8), UINT32_MAX)) =>
        /\ Eq(result.value, Mul(args.n, 8))
        /\ Eq(result.payload_size, Mul(args.n, 8))
    /\ call = "MSG_SIZE" =>
        /\ Eq(result.value, Add(<<16>>, args.payload_size))
        /\ Eq(result.total_size, Add(<<16>>, args.payload_size))

\* the OR of the eight capability flags as the format documents them
DocAllCaps == W(\hFF00, \h0000)

\* a 32-bit value with exactly one bit set
SingleBit(w) ==
    \E i \in 1..4 :
        /\ w[i] \in {1, 2, 4, 8, 16, 32, 64, 128}
        /\ \A j \in (1..4) \ {i} : w[j] = 0

\* C8: the eight capability flags are eight distinct single bits within
\* 0x01000000..0x80000000 with pairwise AND 0, and CAP_STANDARD, CAP_EXTENDED
\* and CAP_FULL are each the OR of a subset of them with no bit outside:
\* TOOLS|APPS, TOOLS|APPS|FILES, and all eight.
C8_CapabilityUnions ==
    /\ Cardinality(CapBits) = 8
    /\ \A c \in CapBits :
           SingleBit(c) /\ Le(W(\h0100, \h0000), c) /\ Le(c, W(\h8000, \h0000))
    /\ \A c, d \in CapBits : c # d => And(c, d) = W(0, 0)
    /\ OrWords(CapBits) = DocAllCaps
    /\ CAP_STANDARD = W(\h3000, \h0000)
    /\ CAP_EXTENDED = W(\h7000, \h0000)
    /\ call = "CAP" => And(result, DocAllCaps) = result
    /\ (call = "WH" /\ args.cap \in {CAP_STANDARD, CAP_EXTENDED, CAP_FULL}) =>
        /\ And(Header("cap"), DocAllCaps) = Header("cap")
        /\ \E S \in SUBSET CapBits : Header("cap") = OrWords(S)
        /\ args.cap = CAP_FULL => Header("cap") = OrWords(CapBits)

\* C9: the eight annotation bits are the distinct single bits 0x01..0x80,
\* pairwise disjoint, with OR 0xFF, so a set of flags maps to one ann value
\* and back; ANN_RO = T_R, ANN_RW = T_R|T_W, ANN_MCP = T_R|T_W|T_D, ANN_FULL =
\* T_R|T_W|T_D|T_X add no bit, and ANN_RO, ANN_RW, ANN_MCP, ANN_FULL are nested.
C9_AnnotationBits ==
    /\ <<T_R, T_W, T_D, T_X, T_SYNC, T_COMPRESS, T_ENCRYPT, T_ARCHIVE>>
           = <<1, 2, 4, 8, 16, 32, 64, 128>>
    /\ Cardinality(AnnBits) = 8
    /\ \A a, b \in AnnBits : a # b => AndByte(a, b) = 0
    /\ OrBytes(AnnBits) = 255
    /\ ANN_RO = 1 /\ ANN_RW = 3 /\ ANN_MCP = 7 /\ ANN_FULL = 15
    /\ AndByte(ANN_RO, ANN_RW) = ANN_RO
    /\ AndByte(ANN_RW, ANN_MCP) = ANN_RW
    /\ AndByte(ANN_MCP, ANN_FULL) = ANN_MCP
    /\ call = "ANN" =>
        /\ result \in 0..255
        /\ {b \in AnnBits : AndByte(result, b) # 0} = args.bits
        /\ \A b \in 0..7 : Bit(result, b) <=> 2 ^ b \in args.bits

\* the flags sync, encrypt and read combined into one ann value
C9_Witness ==
    /\ call = "ANN"
    /\ args.bits = {T_R, T_SYNC, T_ENCRYPT}
    /\ result = \h51

Budget(f) == Get(bud_t, result.budget, f, big_endian)

\* C10: BUD takes every triple of 32-bit values, used > cap included, and the
\* budget reads back mode, cap_credits and used_credits as given, unclamped;
\* when used_credits <= cap_credits, remaining = cap_credits - used_credits
\* has 0 <= remaining <= cap_credits and remaining + used_credits =
\* cap_credits.
C10_Budget ==
    call = "BUD" =>
        /\ DOMAIN result.budget = 1..12
        /\ Budget("mode") = args.mode
        /\ Budget("cap_credits") = args.cap
        /\ Budget("used_credits") = args.used
        /\ Le(args.used, args.cap) =>
            /\ Le(W(0, 0), result.remaining)
            /\ Le(result.remaining, args.cap)
            /\ Eq(Add(result.remaining, args.used), args.cap)

\* a budget with more credits used than its capacity
C10_Witness ==
    /\ call = "BUD"
    /\ Lt(args.cap, args.used)
    /\ Budget("used_credits") = args.used
    /\ Budget("cap_credits") = args.cap

\* a budget within its capacity, some credits used and some left
C10_WitnessWithin ==
    /\ call = "BUD"
    /\ args.cap = Num(1000000, 4) /\ args.used = Num(50000, 4)
    /\ result.remaining = Num(950000, 4)

\* 2^32, one more than the largest uint32_t
TwoTo32 == <<0, 0, 0, 0, 1>>

\* C11: the remaining credits cap_credits - used_credits, computed in 32-bit
\* unsigned arithmetic, are always a 32-bit value (the subtraction never
\* faults); when used_credits > cap_credits they wrap to 2^32 + cap_credits -
\* used_credits, which is strictly greater than cap_credits; so for every
\* budget remaining <= cap_credits exactly when used_credits <= cap_credits.
C11_RemainingWraps ==
    call = "BUD" =>
        /\ DOMAIN result.remaining = 1..4
        /\ \A i \in 1..4 : result.remaining[i] \in 0..255
        /\ Lt(args.cap, args.used) =>
            /\ Eq(Add(result.remaining, args.used), Add(TwoTo32, args.cap))
            /\ Lt(args.cap, result.remaining)
        /\ Le(result.remaining, args.cap) <=> Le(args.used, args.cap)

\* an empty budget with one credit used: the remaining credits wrap to 2^32 - 1
C11_Witness ==
    /\ call = "BUD"
    /\ args.cap = W(0, 0) /\ args.used = W(0, 1)
    /\ result.remaining = W(\hFFFF, \hFFFF)
    /\ Lt(args.cap, result.remaining)

====
